---- MODULE Spec2Model ----
(***************************************************************************)
(* SpeedTracerMiddleware (sugar/middleware/speedtracer.py): a Django       *)
(* middleware that installs a sys.settrace interceptor for the duration of *)
(* a request, records a tree of timed spans for the calls whose source     *)
(* file matches a filter, stores the tree in the cache under a generated   *)
(* id and serves stored trees from a side-channel URL.                     *)
(*                                                                         *)
(* Strings are modelled as sequences of tokens, so that startswith,        *)
(* slicing, %-formatting and '.'.join are the sequence operations they     *)
(* are on characters.  Span records are values: the code only mutates a    *)
(* record while it is on call_stack, and a popped record is appended to    *)
(* exactly one list.  cache.set pickles its value, so a stored document is *)
(* a snapshot.  time.time() reads a clock that never runs backwards.       *)
(***************************************************************************)
EXTENDS Integers, Sequences, FiniteSets, TLC

VARIABLES
    traces,       \* self.traces: completed root-level spans
    call_stack,   \* self.call_stack: open spans
    file_filter,  \* self.file_filter: the directories the compiled pattern matches
    tracer,       \* TRUE iff sys.settrace holds self.trace_callback
    cache,        \* django.core.cache: key -> [value, expires]
    now,          \* what time.time() returns
    ticks,        \* number of clock advances so far
    phase,        \* "idle", "handling" (between the hooks), "failing" (handling, with
                  \* an exception of the trace function propagating), "responding"
    request,      \* the request object of the current / last request
    response,     \* the response object of the current / last request
    frames,       \* live activations entered while the interceptor was installed
    nextId,       \* next fresh id(new_record)
    usedIds,      \* uuid4 values generated so far
    reqNo,        \* number of requests begun
    calls,        \* history: for each span id, the request, enclosing activation and time of its enter event
    data,         \* history: the document assembled by the last process_response, or NoData
    stored        \* history: what each X-TraceUrl handed out pointed to, and when

vars == <<traces, call_stack, file_filter, tracer, cache, now, ticks, phase,
          request, response, frames, nextId, usedIds, reqNo, calls, data, stored>>

----------------------------------------------------------------------------
(* Bounds *)

MaxSpans == 2     \* spans created in one behaviour
MaxDepth == 2     \* live traced-era activations
MaxReq   == 3     \* requests in one behaviour
MaxTicks == 1     \* clock advances in one behaviour

(* Program constants *)

TTL == 3600

CACHE_PREFIX(s) == <<"speedtracer-">> \o s

TRACE_URL == <<"/__speedtracer__/">>

----------------------------------------------------------------------------
(* Inputs *)

(* The directories the configured SPEEDTRACER_FILE_FILTER_RE matches.  (The
   pattern derived from INSTALLED_APPS is never used: line 75 of __init__ is
   a print >>sys.stderr under print_function and raises.) *)
AppDir   == <<"/srv/app/">>
SugarDir == <<"/srv/sugar/">>

AppFrame ==
    [co_filename |-> AppDir \o <<"views.py">>, co_name |-> "page_handler",
     f_lineno |-> 10, module_name |-> "views", class_name |-> ""]

LibFrame ==
    [co_filename |-> <<"/usr/lib/">> \o <<"json.py">>, co_name |-> "dumps",
     f_lineno |-> 20, module_name |-> "json", class_name |-> ""]

Frames == {AppFrame, LibFrame}

(* matching frames with and without a module and an enclosing type *)
LabelFrames ==
    {[co_filename |-> AppDir \o <<"models.py">>, co_name |-> "load", f_lineno |-> 30,
      module_name |-> m, class_name |-> c] : m \in {"", "models"}, c \in {"", "Page"}}

HookFrame(name, line) ==
    [co_filename |-> SugarDir \o <<"middleware/speedtracer.py">>, co_name |-> name,
     f_lineno |-> line, module_name |-> "sugar.middleware.speedtracer",
     class_name |-> "SpeedTracerMiddleware"]

(* uuid.uuid4(): a value no earlier call returned; n is the number of
   earlier calls. *)
uuid4(n) == <<"uuid-", ToString(n + 1)>>

(* the id a retrieval request may ask for: never generated, or generated by
   the first traced request *)
TraceIds == {uuid4(0)}

Methods == {"GET"}

Paths == {<<"/app/page">>} \cup {TRACE_URL \o u : u \in TraceIds}

(* the clock advances in steps of the time-to-live: a document stored
   before a step has expired after it *)
Steps == {TTL}

NoData == <<>>

NoResponse == [status |-> 0]

----------------------------------------------------------------------------
(* Pure helpers *)

StartsWith(s, p) == Len(s) >= Len(p) /\ SubSeq(s, 1, Len(p)) = p

(* the slice taken one position early *)
SliceFrom_early(s, n) == SubSeq(s, n, Len(s))

SliceFrom(s, n) == SubSeq(s, n + 1, Len(s))

(* the empty segments kept *)
FilterNone_keep(s) == s

FilterNone(s) == SelectSeq(s, LAMBDA x : x # "")

RECURSIVE Join(_, _)
Join(sep, s) ==
    IF s = <<>> THEN <<>>
    ELSE IF Len(s) = 1 THEN <<s[1]>>
    ELSE <<s[1], sep>> \o Join(sep, Tail(s))

match(filter, filename) == \E d \in filter : StartsWith(filename, d)

(* the two arguments used the other way round *)
_build_range_swapped(start_time, end_time) ==
    [start |-> end_time, end |-> start_time, duration |-> start_time - end_time]

_build_range(start_time, end_time) ==
    [start |-> start_time, end |-> end_time, duration |-> end_time - start_time]

new_record(frame, t, nid) ==
    [operation |->
        [sourceCodeLocation |->
            [className |-> frame.co_filename, methodName |-> frame.co_name,
             lineNumber |-> frame.f_lineno],
         type |-> "METHOD",
         label |-> Join(".", FilterNone(<<frame.module_name, frame.class_name, frame.co_name>>))],
     children |-> <<>>,
     range |-> [start_time |-> t],
     id |-> nid]

(* the return event pops the oldest open span instead of the newest *)
trace_callback_fifo(cs, tr, filter, frame, event, t, nid) ==
    IF event \notin {"call", "return"}
    THEN [call_stack |-> cs, traces |-> tr, result |-> FALSE, raised |-> FALSE]
    ELSE IF ~match(filter, frame.co_filename)
    THEN [call_stack |-> cs, traces |-> tr, result |-> FALSE, raised |-> FALSE]
    ELSE IF event = "call"
    THEN [call_stack |-> Append(cs, new_record(frame, t, nid)), traces |-> tr, result |-> TRUE, raised |-> FALSE]
    ELSE IF cs = <<>>
    THEN [call_stack |-> cs, traces |-> tr, result |-> FALSE, raised |-> TRUE]
    ELSE LET top == cs[1]
             current_frame == [top EXCEPT !.range = _build_range(top.range.start_time, t)]
             rest == Tail(cs)
         IN  IF rest = <<>>
             THEN [call_stack |-> rest, traces |-> Append(tr, current_frame), result |-> FALSE, raised |-> FALSE]
             ELSE [call_stack |-> [rest EXCEPT ![Len(rest)].children = Append(@, current_frame)],
                   traces |-> tr, result |-> FALSE, raised |-> FALSE]

(* the root list is assigned the closed span instead of extended by it *)
trace_callback_assign(cs, tr, filter, frame, event, t, nid) ==
    IF event \notin {"call", "return"}
    THEN [call_stack |-> cs, traces |-> tr, result |-> FALSE, raised |-> FALSE]
    ELSE IF ~match(filter, frame.co_filename)
    THEN [call_stack |-> cs, traces |-> tr, result |-> FALSE, raised |-> FALSE]
    ELSE IF event = "call"
    THEN [call_stack |-> Append(cs, new_record(frame, t, nid)), traces |-> tr, result |-> TRUE, raised |-> FALSE]
    ELSE IF cs = <<>>
    THEN [call_stack |-> cs, traces |-> tr, result |-> FALSE, raised |-> TRUE]
    ELSE LET top == cs[Len(cs)]
             current_frame == [top EXCEPT !.range = _build_range(top.range.start_time, t)]
             rest == SubSeq(cs, 1, Len(cs) - 1)
         IN  IF rest = <<>>
             THEN [call_stack |-> rest, traces |-> <<current_frame>>, result |-> FALSE, raised |-> FALSE]
             ELSE [call_stack |-> [rest EXCEPT ![Len(rest)].children = Append(@, current_frame)],
                   traces |-> tr, result |-> FALSE, raised |-> FALSE]

(* the closed span is appended to the root list even when it has a parent *)
trace_callback_both(cs, tr, filter, frame, event, t, nid) ==
    IF event \notin {"call", "return"}
    THEN [call_stack |-> cs, traces |-> tr, result |-> FALSE, raised |-> FALSE]
    ELSE IF ~match(filter, frame.co_filename)
    THEN [call_stack |-> cs, traces |-> tr, result |-> FALSE, raised |-> FALSE]
    ELSE IF event = "call"
    THEN [call_stack |-> Append(cs, new_record(frame, t, nid)), traces |-> tr, result |-> TRUE, raised |-> FALSE]
    ELSE IF cs = <<>>
    THEN [call_stack |-> cs, traces |-> tr, result |-> FALSE, raised |-> TRUE]
    ELSE LET top == cs[Len(cs)]
             current_frame == [top EXCEPT !.range = _build_range(top.range.start_time, t)]
             rest == SubSeq(cs, 1, Len(cs) - 1)
         IN  IF rest = <<>>
             THEN [call_stack |-> rest, traces |-> Append(tr, current_frame), result |-> FALSE, raised |-> FALSE]
             ELSE [call_stack |-> [rest EXCEPT ![Len(rest)].children = Append(@, current_frame)],
                   traces |-> Append(tr, current_frame), result |-> FALSE, raised |-> FALSE]

(* the return event attaches the span without closing its range *)
trace_callback_unclosed(cs, tr, filter, frame, event, t, nid) ==
    IF event \notin {"call", "return"}
    THEN [call_stack |-> cs, traces |-> tr, result |-> FALSE, raised |-> FALSE]
    ELSE IF ~match(filter, frame.co_filename)
    THEN [call_stack |-> cs, traces |-> tr, result |-> FALSE, raised |-> FALSE]
    ELSE IF event = "call"
    THEN [call_stack |-> Append(cs, new_record(frame, t, nid)), traces |-> tr, result |-> TRUE, raised |-> FALSE]
    ELSE IF cs = <<>>
    THEN [call_stack |-> cs, traces |-> tr, result |-> FALSE, raised |-> TRUE]
    ELSE LET top == cs[Len(cs)]
             current_frame == top
             rest == SubSeq(cs, 1, Len(cs) - 1)
         IN  IF rest = <<>>
             THEN [call_stack |-> rest, traces |-> Append(tr, current_frame), result |-> FALSE, raised |-> FALSE]
             ELSE [call_stack |-> [rest EXCEPT ![Len(rest)].children = Append(@, current_frame)],
                   traces |-> tr, result |-> FALSE, raised |-> FALSE]

(* trace_callback: the new call_stack and traces, whether a local trace
   function was returned for the frame, and whether the call raised.  The
   module imports print_function, so the statement at line 129,
   print >>sys.stderr, "Return without stack?", is the expression
   (print >> sys.stderr, "...") and raises TypeError. *)
trace_callback(cs, tr, filter, frame, event, t, nid) ==
    IF event \notin {"call", "return"}
    THEN [call_stack |-> cs, traces |-> tr, result |-> FALSE, raised |-> FALSE]
    ELSE IF ~match(filter, frame.co_filename)
    THEN [call_stack |-> cs, traces |-> tr, result |-> FALSE, raised |-> FALSE]
    ELSE IF event = "call"
    THEN [call_stack |-> Append(cs, new_record(frame, t, nid)), traces |-> tr, result |-> TRUE, raised |-> FALSE]
    ELSE IF cs = <<>>
    THEN [call_stack |-> cs, traces |-> tr, result |-> FALSE, raised |-> TRUE]
    ELSE LET top == cs[Len(cs)]
             current_frame == [top EXCEPT !.range = _build_range(top.range.start_time, t)]
             rest == SubSeq(cs, 1, Len(cs) - 1)
         IN  IF rest = <<>>
             THEN [call_stack |-> rest, traces |-> Append(tr, current_frame), result |-> FALSE, raised |-> FALSE]
             ELSE [call_stack |-> [rest EXCEPT ![Len(rest)].children = Append(@, current_frame)],
                   traces |-> tr, result |-> FALSE, raised |-> FALSE]

cache_get(c, key, default, t) ==
    IF key \in DOMAIN c /\ c[key].expires > t THEN c[key].value ELSE default

cache_set(c, key, value, timeout, t) ==
    [k \in DOMAIN c \cup {key} |->
        IF k = key THEN [value |-> value, expires |-> t + timeout] ELSE c[k]]

RECURSIVE DumpSpans(_)
DumpRange(r) ==
    <<"{", "start", ToString(r.start), "end", ToString(r.end),
      "duration", ToString(r.duration), "}">>

DumpSpan(s) ==
    <<"{", "id", ToString(s.id), "range">> \o DumpRange(s.range)
    \o <<"operation", "{", "className">> \o s.operation.sourceCodeLocation.className
    \o <<"methodName", s.operation.sourceCodeLocation.methodName,
         "lineNumber", ToString(s.operation.sourceCodeLocation.lineNumber),
         "type", s.operation.type, "label">> \o s.operation.label
    \o <<"}", "children">> \o DumpSpans(s.children) \o <<"}">>

DumpSpans(ss) ==
    IF ss = <<>> THEN <<"[", "]">>
    ELSE <<"[">> \o DumpSpan(ss[1]) \o Tail(DumpSpans(Tail(ss)))

json_dumps(d) ==
    IF DOMAIN d = {} THEN <<"{", "}">>
    ELSE LET t == d.trace
             fs == t.frameStack
         IN  <<"{", "trace", "{", "id">> \o t.id
             \o <<"application", t.application, "date", ToString(t.date), "range">>
             \o DumpRange(t.range)
             \o <<"frameStack", "{", "id", ToString(fs.id), "range">> \o DumpRange(fs.range)
             \o <<"operation", "{", "type", fs.operation.type, "label">> \o fs.operation.label
             \o <<"}", "children">> \o DumpSpans(fs.children) \o <<"}", "}", "}">>

HttpResponse(content, mimetype) ==
    [status |-> 200, content |-> content, mimetype |-> mimetype, headers |-> <<>>]

ViewResponse == HttpResponse(<<"page">>, <<"text/html">>)

(* the framework's response to an exception that escaped the view *)
ServerError == [status |-> 500, content |-> <<"error">>, mimetype |-> <<"text/html">>,
                headers |-> <<>>]

SetHeader(resp, name, value) ==
    [resp EXCEPT !.headers = [h \in DOMAIN resp.headers \cup {name} |->
                                 IF h = name THEN value ELSE resp.headers[h]]]

(* cache.get called without its default: a miss is an error response *)
retrieve_nodefault(c, path, t) ==
    LET trace_id == CACHE_PREFIX(SliceFrom(path, Len(TRACE_URL)))
    IN  IF trace_id \in DOMAIN c /\ c[trace_id].expires > t
        THEN HttpResponse(json_dumps(c[trace_id].value), <<"application/json; charset=UTF-8">>)
        ELSE [status |-> 500, content |-> <<>>, mimetype |-> <<"text/html">>, headers |-> <<>>]

(* process_request, the retrieval branch: the response served for path *)
retrieve(c, path, t) ==
    LET trace_id == CACHE_PREFIX(SliceFrom(path, Len(TRACE_URL)))
        d == cache_get(c, trace_id, <<>>, t)
    IN  HttpResponse(json_dumps(d), <<"application/json; charset=UTF-8">>)

(* the label formatted without the space, the children in reverse *)
build_data_scrambled(req, trace_id, start_time, end_time, date, tr) ==
    [trace |->
        [id |-> trace_id,
         application |-> "Django SpeedTracer",
         date |-> date,
         range |-> _build_range(start_time, end_time),
         frameStack |->
            [id |-> 0,
             range |-> _build_range(start_time, end_time),
             operation |-> [type |-> "HTTP", label |-> <<req.method>> \o req.path],
             children |-> [i \in 1..Len(tr) |-> tr[Len(tr) + 1 - i]]]]]

(* process_response: the document assembled for a request *)
build_data(req, trace_id, start_time, end_time, date, tr) ==
    [trace |->
        [id |-> trace_id,
         application |-> "Django SpeedTracer",
         date |-> date,
         range |-> _build_range(start_time, end_time),
         frameStack |->
            [id |-> 0,
             range |-> _build_range(start_time, end_time),
             operation |-> [type |-> "HTTP", label |-> <<req.method, " ">> \o req.path],
             children |-> tr]]]

----------------------------------------------------------------------------
(* State *)

Init ==
    /\ traces = <<>>
    /\ call_stack = <<>>
    /\ file_filter \in {{AppDir}, {AppDir, SugarDir}}
    /\ tracer = FALSE
    /\ cache = <<>>
    /\ now = 0
    /\ ticks = 0
    /\ phase = "idle"
    /\ request = [method |-> "", path |-> <<>>]
    /\ response = NoResponse
    /\ frames = <<>>
    /\ nextId = 1
    /\ usedIds = {}
    /\ reqNo = 0
    /\ calls = <<>>
    /\ data = NoData
    /\ stored = {}

(* The request an enter event belongs to: 0 outside any request. *)
CurReq == IF phase = "idle" THEN 0 ELSE reqNo

(* The span id of the innermost live activation that has a span; 0 if none. *)
EnclosingId(fr) ==
    LET idx == {i \in 1..Len(fr) : fr[i].f_trace}
    IN  IF idx = {} THEN 0 ELSE fr[CHOOSE i \in idx : \A j \in idx : j <= i].id

(* What the interpreter does with a call made while sys.settrace holds a
   function: it delivers a "call" event to it before the body runs. *)
Deliver(on, cs, tr, frame, event) ==
    IF on THEN trace_callback(cs, tr, file_filter, frame, event, now, nextId)
    ELSE [call_stack |-> cs, traces |-> tr, result |-> FALSE, raised |-> FALSE]

----------------------------------------------------------------------------
(* Actions *)

(* time passes *)
Tick(d) ==
    /\ ticks < MaxTicks
    /\ ticks' = ticks + 1
    /\ now' = now + d
    /\ UNCHANGED <<traces, call_stack, file_filter, tracer, cache, phase, request,
                   response, frames, nextId, usedIds, reqNo, calls, data, stored>>

(* a function is called while the interceptor is installed *)
Enter(frame) ==
    /\ tracer
    /\ Len(frames) < MaxDepth
    /\ LET r == Deliver(tracer, call_stack, traces, frame, "call")
       IN  /\ r.result => nextId <= MaxSpans
           /\ call_stack' = r.call_stack
           /\ traces' = r.traces
           /\ frames' = Append(frames, [code |-> frame, f_trace |-> r.result,
                                        id |-> IF r.result THEN nextId ELSE 0])
           /\ nextId' = IF r.result THEN nextId + 1 ELSE nextId
           /\ calls' = IF r.result
                       THEN Append(calls, [req |-> CurReq, parent |-> EnclosingId(frames), at |-> now])
                       ELSE calls
    /\ UNCHANGED <<file_filter, tracer, cache, now, ticks, phase, request, response,
                   usedIds, reqNo, data, stored>>

(* the innermost live activation returns (or unwinds on an exception); an
   exception raised by the trace function uninstalls it and propagates into
   the code being traced *)
Return ==
    /\ frames # <<>>
    /\ LET top == frames[Len(frames)]
           r == Deliver(tracer /\ top.f_trace, call_stack, traces, top.code, "return")
       IN  /\ call_stack' = r.call_stack
           /\ traces' = r.traces
           /\ tracer' = IF r.raised THEN FALSE ELSE tracer
           /\ phase' = IF r.raised /\ phase = "handling" THEN "failing" ELSE phase
    /\ frames' = SubSeq(frames, 1, Len(frames) - 1)
    /\ UNCHANGED <<file_filter, cache, now, ticks, request, response,
                   nextId, usedIds, reqNo, calls, data, stored>>

(* process_request(request) *)
ProcessRequest(method, path) ==
    /\ phase = "idle"
    /\ frames = <<>>
    /\ reqNo < MaxReq
    /\ LET frame == HookFrame("process_request", 143)
           c1 == Deliver(tracer, call_stack, traces, frame, "call")
           normal == ~StartsWith(path, TRACE_URL)
           c2 == Deliver((normal \/ tracer) /\ c1.result, c1.call_stack, c1.traces, frame, "return")
       IN  /\ c1.result => nextId <= MaxSpans
           /\ nextId' = IF c1.result THEN nextId + 1 ELSE nextId
           /\ calls' = IF c1.result THEN Append(calls, [req |-> reqNo + 1, parent |-> 0, at |-> now])
                       ELSE calls
           /\ call_stack' = c2.call_stack
           /\ traces' = c2.traces
           /\ IF normal
              THEN /\ request' = [method |-> method, path |-> path,
                                  _speedtracer_start_time |-> now]
                   /\ tracer' = TRUE
                   /\ response' = NoResponse
                   /\ phase' = "handling"
              ELSE /\ request' = [method |-> method, path |-> path]
                   /\ tracer' = tracer
                   /\ response' = retrieve(cache, path, now)
                   /\ phase' = "responding"
    /\ reqNo' = reqNo + 1
    /\ data' = NoData
    /\ UNCHANGED <<file_filter, cache, now, ticks, frames, usedIds, stored>>

(* process_response without its sys.settrace(None) *)
ProcessResponse_nostop ==
    /\ phase \in {"handling", "failing", "responding"}
    /\ frames = <<>>
    /\ LET frame == HookFrame("process_response", 155)
           c1 == Deliver(tracer, call_stack, traces, frame, "call")
           resp == IF phase = "handling" THEN ViewResponse
                   ELSE IF phase = "failing" THEN ServerError ELSE response
       IN  /\ c1.result => nextId <= MaxSpans
           /\ nextId' = IF c1.result THEN nextId + 1 ELSE nextId
           /\ calls' = IF c1.result THEN Append(calls, [req |-> reqNo, parent |-> 0, at |-> now])
                       ELSE calls
           /\ call_stack' = c1.call_stack
           /\ traces' = c1.traces
           /\ tracer' = tracer
           /\ IF "_speedtracer_start_time" \notin DOMAIN request
              THEN /\ response' = resp
                   /\ data' = NoData
                   /\ UNCHANGED <<cache, usedIds, stored>>
              ELSE LET trace_id == uuid4(Cardinality(usedIds))
                       start_time == request._speedtracer_start_time
                       end_time == now
                       doc == build_data(request, trace_id, start_time, end_time, now,
                                         c1.traces)
                       url == TRACE_URL \o trace_id
                   IN  /\ usedIds' = usedIds \cup {trace_id}
                       /\ data' = doc
                       /\ cache' = cache_set(cache, CACHE_PREFIX(trace_id), doc, TTL, now)
                       /\ response' = SetHeader(resp, "X-TraceUrl", url)
                       /\ stored' = stored \cup {[url |-> url, doc |-> doc, at |-> now]}
    /\ phase' = "idle"
    /\ UNCHANGED <<file_filter, now, ticks, request, frames, reqNo>>

(* process_response(request, response) *)
ProcessResponse ==
    /\ phase \in {"handling", "failing", "responding"}
    /\ frames = <<>>
    /\ LET frame == HookFrame("process_response", 155)
           c1 == Deliver(tracer, call_stack, traces, frame, "call")
           resp == IF phase = "handling" THEN ViewResponse
                   ELSE IF phase = "failing" THEN ServerError ELSE response
       IN  /\ c1.result => nextId <= MaxSpans
           /\ nextId' = IF c1.result THEN nextId + 1 ELSE nextId
           /\ calls' = IF c1.result THEN Append(calls, [req |-> reqNo, parent |-> 0, at |-> now])
                       ELSE calls
           /\ call_stack' = c1.call_stack
           /\ traces' = c1.traces
           /\ tracer' = FALSE
           /\ IF "_speedtracer_start_time" \notin DOMAIN request
              THEN /\ response' = resp
                   /\ data' = NoData
                   /\ UNCHANGED <<cache, usedIds, stored>>
              ELSE LET trace_id == uuid4(Cardinality(usedIds))
                       start_time == request._speedtracer_start_time
                       end_time == now
                       doc == build_data(request, trace_id, start_time, end_time, now,
                                         c1.traces)
                       url == TRACE_URL \o trace_id
                   IN  /\ usedIds' = usedIds \cup {trace_id}
                       /\ data' = doc
                       /\ cache' = cache_set(cache, CACHE_PREFIX(trace_id), doc, TTL, now)
                       /\ response' = SetHeader(resp, "X-TraceUrl", url)
                       /\ stored' = stored \cup {[url |-> url, doc |-> doc, at |-> now]}
    /\ phase' = "idle"
    /\ UNCHANGED <<file_filter, now, ticks, request, frames, reqNo>>

(* the request ends without the framework running process_response: the
   exception propagated, or another middleware's response hook raised *)
Abort ==
    /\ phase = "handling"
    /\ frames = <<>>
    /\ phase' = "idle"
    /\ UNCHANGED <<traces, call_stack, file_filter, tracer, cache, now, ticks, request,
                   response, frames, nextId, usedIds, reqNo, calls, data, stored>>

Next ==
    \/ \E d \in Steps : Tick(d)
    \/ \E frame \in Frames : Enter(frame)
    \/ Return
    \/ \E method \in Methods, path \in Paths : ProcessRequest(method, path)
    \/ ProcessResponse
    \/ Abort

Spec == Init /\ [][Next]_vars

----------------------------------------------------------------------------
(* Vocabulary of the properties *)

RECURSIVE PreOrderIds(_)
(* the ids of a forest of spans in depth-first pre-order *)
PreOrderIds(ss) ==
    IF ss = <<>> THEN <<>>
    ELSE <<ss[1].id>> \o PreOrderIds(ss[1].children) \o PreOrderIds(Tail(ss))

RECURSIVE AllSpans(_)
(* the spans of a forest, at every depth *)
AllSpans(ss) ==
    IF ss = <<>> THEN {}
    ELSE {ss[1]} \cup AllSpans(ss[1].children) \cup AllSpans(Tail(ss))

IdsOf(ss) == [i \in 1..Len(ss) |-> ss[i].id]

Closed(s) == DOMAIN s.range = {"start", "end", "duration"}

AllIds == [i \in 1..Len(calls) |-> i]

(* the spans entered during request n, in the order of their enter events *)
EnteredIn(n) == SelectSeq(AllIds, LAMBDA i : calls[i].req = n)

(* the spans entered directly within activation k, in call order *)
CalledBy(k) == SelectSeq(AllIds, LAMBDA i : calls[i].parent = k)

(* process_response has assembled a document for request reqNo and no later
   request has begun *)
Assembled == phase = "idle" /\ data # NoData

(* every enter event of request reqNo had its return event delivered *)
WellNested == \A i \in 1..Len(call_stack) : calls[call_stack[i].id].req # reqNo

----------------------------------------------------------------------------
(* Properties *)

(* C1: after a request whose matching enter/return events were properly
   nested, the forest under the root-span list has one span per enter event
   of the request, its pre-order walk lists them in enter order, and the
   children of each span are the calls made directly within it, in order. *)
C1_ForestIsCallTree ==
    (Assembled /\ WellNested) =>
        /\ PreOrderIds(traces) = EnteredIn(reqNo)
        /\ \A sp \in AllSpans(traces) : IdsOf(sp.children) = CalledBy(sp.id)

(* C2: the document assembled for a request holds, under its HTTP root span,
   only spans entered during that request. *)
C2_OnlyOwnSpans ==
    Assembled =>
        \A sp \in AllSpans(data.trace.frameStack.children) : calls[sp.id].req = reqNo

(* C3: an enter event on a frame the filter rejects changes neither the
   stack nor the root list and leaves the interceptor installed, the return
   of such a frame pops nothing, and a matching call made inside such a frame
   ends up under the span of the nearest enclosing live matching activation,
   or in the root list when there is none. *)
C3_UnmatchedTransparent ==
    [][/\ (Len(frames') = Len(frames) + 1 /\ ~frames'[Len(frames')].f_trace)
            => UNCHANGED <<call_stack, traces, tracer>>
       /\ (Len(frames') = Len(frames) - 1 /\ ~frames[Len(frames)].f_trace)
            => UNCHANGED <<call_stack, traces>>
       /\ (/\ Len(frames') = Len(frames) - 1
           /\ Len(frames) >= 2
           /\ frames[Len(frames)].f_trace
           /\ ~frames[Len(frames) - 1].f_trace)
            => LET k == frames[Len(frames)].id
                   e == EnclosingId(frames')
               IN  IF e = 0
                   THEN /\ Len(traces') = Len(traces) + 1
                        /\ traces'[Len(traces')].id = k
                   ELSE /\ call_stack' # <<>>
                        /\ call_stack'[Len(call_stack')].id = e
                        /\ IdsOf(call_stack'[Len(call_stack')].children)
                             = Append(IdsOf(call_stack[Len(call_stack) - 1].children), k)
      ]_vars

(* C4: a request during which no matching enter event occurred still gets a
   document, and its HTTP root span has no children. *)
C4_NoEventsEmptyChildren ==
    [][(/\ phase = "handling"
        /\ phase' = "idle"
        /\ tracer' = FALSE
        /\ EnteredIn(reqNo)' = <<>>)
            => /\ data' # NoData
               /\ data'.trace.frameStack.children = <<>>
      ]_vars

(* process_response handles a request process_request started tracing for *)
StoreStep == phase = "handling" /\ phase' = "idle" /\ ~tracer'

(* process_request serves a retrieval request *)
ServeStep == phase = "idle" /\ phase' = "responding"

(* process_response handles a retrieval request *)
PassStep == phase = "responding" /\ phase' = "idle"

(* C5: handling a normal request stores exactly one document, under the key
   made of the prefix and the fresh trace id, and sets X-TraceUrl to the
   retrieval prefix followed by that id; a retrieval request to a URL handed
   out earlier, served before the document expired, answers with exactly the
   document that was stored then, whatever was traced in between. *)
C5_StoreThenRetrieve ==
    [][/\ StoreStep =>
            LET key == <<"speedtracer-">> \o data'.trace.id
            IN  /\ data' # NoData
                /\ key \notin DOMAIN cache
                /\ DOMAIN cache' = DOMAIN cache \cup {key}
                /\ cache'[key].value = data'
                /\ \A k \in DOMAIN cache : cache'[k] = cache[k]
                /\ DOMAIN response'.headers = {"X-TraceUrl"}
                /\ response'.headers["X-TraceUrl"] = <<"/__speedtracer__/">> \o data'.trace.id
       /\ ServeStep =>
            \A st \in stored :
                (st.url = request'.path /\ now < st.at + TTL)
                    => /\ response'.status = 200
                       /\ response'.content = json_dumps(st.doc)
      ]_vars

C5_Witness ==
    /\ phase = "responding"
    /\ Cardinality(stored) = 2
    /\ \E st \in stored :
        /\ st.url = request.path
        /\ st.doc.trace.id = uuid4(0)
        /\ st.doc.trace.frameStack.children # <<>>
        /\ response.content = json_dumps(st.doc)

(* C6: a retrieval request is always answered with a successful JSON
   response, and when no document was ever stored for its URL, or the one
   stored has outlived its time-to-live, the body is the empty document. *)
C6_MissIsEmptyDocument ==
    [][ServeStep =>
            /\ response'.status = 200
            /\ response'.mimetype = <<"application/json; charset=UTF-8">>
            /\ (\A st \in stored : st.url = request'.path => now >= st.at + TTL)
                    => response'.content = <<"{", "}">>
      ]_vars

C6_Witness ==
    /\ phase = "responding"
    /\ response.content = <<"{", "}">>
    /\ \E st \in stored : st.url = request.path

(* C7: handling a retrieval request, before-hook and after-hook, does not
   install the interceptor, changes neither the stack, the root list nor the
   stored documents, and the after-hook passes the response through without
   an X-TraceUrl header. *)
C7_RetrievalLeavesRecorderAlone ==
    [][/\ (ServeStep \/ PassStep) =>
            /\ UNCHANGED <<call_stack, traces, cache>>
            /\ tracer' => tracer
       /\ PassStep =>
            /\ response' = response
            /\ "X-TraceUrl" \notin DOMAIN response'.headers
      ]_vars

RangeOK(r) == r.end >= r.start /\ r.duration = r.end - r.start

DocRangesOK(d) ==
    /\ RangeOK(d.trace.range)
    /\ RangeOK(d.trace.frameStack.range)
    /\ \A sp \in AllSpans(d.trace.frameStack.children) : RangeOK(sp.range)

(* C8: every closed span of the recorder, and the overall range and the HTTP
   root span range of every assembled document, has end >= start and
   duration = end - start; a span's start is the time of its enter event and
   a document's start is the request's recorded start time. *)
C8_RangesConsistent ==
    /\ \A sp \in AllSpans(traces) \cup AllSpans(call_stack) :
        IF Closed(sp)
        THEN RangeOK(sp.range) /\ sp.range.start = calls[sp.id].at
        ELSE sp.range = [start_time |-> calls[sp.id].at]
    /\ \A k \in DOMAIN cache : DocRangesOK(cache[k].value)
    /\ Assembled =>
        /\ DocRangesOK(data)
        /\ data.trace.range.start = request._speedtracer_start_time

C8_Witness ==
    /\ Assembled
    /\ data.trace.range.duration > 0
    /\ \E sp \in AllSpans(traces) : Closed(sp) /\ sp.range.duration > 0

(* C9: once a request for which tracing was started has ended, by a normal
   response, a handler error or an abort before the after-hook, the
   interceptor is no longer installed. *)
C9_InterceptorReleased == phase = "idle" => ~tracer

(* C10: the document assembled for a normal request has one root span of
   kind HTTP and id 0, labelled method, space, path; its range is the
   document's overall range, from the request's recorded start time to the
   time read in the after-hook; its children are the recorder's root spans,
   in the order they were completed. *)
C10_RootSpan ==
    [][StoreStep =>
            LET fs == data'.trace.frameStack
            IN  /\ DOMAIN data' = {"trace"}
                /\ fs.id = 0
                /\ fs.operation = [type |-> "HTTP", label |-> <<request.method, " ">> \o request.path]
                /\ fs.range = data'.trace.range
                /\ fs.range = [start |-> request._speedtracer_start_time, end |-> now,
                               duration |-> now - request._speedtracer_start_time]
                /\ fs.children = traces'
                /\ \A i, j \in 1..Len(fs.children) :
                        i < j => /\ fs.children[i].range.end <= fs.children[j].range.end
                                 /\ fs.children[i].id < fs.children[j].id
      ]_vars

C10_Witness ==
    /\ Assembled
    /\ Len(data.trace.frameStack.children) = 2
    /\ data.trace.frameStack.children = traces
    /\ data.trace.frameStack.children[1].range.end < data.trace.frameStack.children[2].range.end

(* the span ids of the live activations that have a span, outermost first *)
LiveIds(fr) == IdsOf(SelectSeq(fr, LAMBDA f : f.f_trace))

(* C11: the spans on the execution stack are exactly the spans of the live
   matching activations of the request being handled, outermost first, each
   the recorded parent of the next; with no live activation, as right after
   start(), the stack is empty. *)
C11_StackIsLiveChain ==
    /\ IdsOf(call_stack) = LiveIds(frames)
    /\ \A i \in 1..Len(call_stack) : calls[call_stack[i].id].req = CurReq
    /\ \A i \in 1..(Len(call_stack) - 1) :
            calls[call_stack[i + 1].id].parent = call_stack[i].id

SpanStart(sp) == IF Closed(sp) THEN sp.range.start ELSE sp.range.start_time

(* the spans of a list are closed and follow one another without overlap *)
SiblingsOK(ss) ==
    /\ \A i \in 1..Len(ss) : Closed(ss[i])
    /\ \A i \in 1..(Len(ss) - 1) : ss[i].range.end <= ss[i + 1].range.start

(* C14: the children of a span are closed, begin no earlier than the span
   and, once the span is closed, end no later than it; the spans of one
   children list, and of the root list, do not overlap. *)
C14_StrictNesting ==
    /\ SiblingsOK(traces)
    /\ \A sp \in AllSpans(traces) \cup AllSpans(call_stack) :
        /\ SiblingsOK(sp.children)
        /\ \A i \in 1..Len(sp.children) :
            /\ sp.children[i].range.start >= SpanStart(sp)
            /\ Closed(sp) => sp.children[i].range.end <= sp.range.end

C14_Witness ==
    \E sp \in AllSpans(traces) :
        /\ sp.children # <<>>
        /\ sp.range.end > sp.children[1].range.end

(* the closed spans the recorder holds, as values *)
ClosedSpans == {sp \in AllSpans(traces) \cup AllSpans(call_stack) : Closed(sp)}

(* C15: a span that is closed and attached stays as it is: no step changes
   its id, label, source location, range or children. *)
C15_ClosedSpansFrozen == [][ClosedSpans \subseteq ClosedSpans']_vars

C15_Witness == Len(traces) = 2 /\ reqNo = 2

(* process_response has run for the last request, or no request was begun *)
Stopped ==
    phase = "idle" /\ (data # NoData \/ "_speedtracer_start_time" \notin DOMAIN request)

(* C16: from stop() to the next start() no step changes the stack or the
   root list, and the document the after-hook assembled holds the root list
   as it was at stop(). *)
C16_InactiveAfterStop ==
    /\ [][Stopped => UNCHANGED <<traces, call_stack>>]_vars
    /\ [](Assembled => data.trace.frameStack.children = traces)

C16_Witness == Assembled /\ traces # <<>> /\ now > data.trace.range.end

(* every span id the recorder holds, once per place it is held in *)
Places == PreOrderIds(call_stack) \o PreOrderIds(traces)

(* C18: every span created so far is held in exactly one place: on the
   stack, in one children list, or in the root list. *)
C18_OnePlace ==
    /\ Len(Places) = nextId - 1
    /\ {Places[i] : i \in 1..Len(Places)} = 1..(nextId - 1)

C18_Witness ==
    /\ Len(call_stack) = 1
    /\ Len(call_stack[1].children) = 1
    /\ frames = <<>>

(* C19: every span under the root list and in every stored document is
   closed, and no stored document holds a span that is on the stack or under
   a span on the stack. *)
C19_DocumentsClosed ==
    /\ \A sp \in AllSpans(traces) : Closed(sp)
    /\ \A k \in DOMAIN cache :
        \A sp \in AllSpans(cache[k].value.trace.frameStack.children) :
            /\ Closed(sp)
            /\ \A op \in AllSpans(call_stack) : op.id # sp.id

C19_Witness ==
    /\ Assembled
    /\ call_stack # <<>>
    /\ data.trace.frameStack.children # <<>>

----------------------------------------------------------------------------
(* One traced request whose calls are drawn from LabelFrames *)

LabelStart == reqNo = 0 /\ ProcessRequest("GET", <<"/app/page">>)

LabelEnter == \E frame \in LabelFrames : Enter(frame)

LabelNext ==
    \/ LabelStart
    \/ LabelEnter
    \/ Return
    \/ ProcessResponse

LabelSpec == Init /\ [][LabelNext]_vars

(* module, enclosing type and function name joined with ".", the absent ones
   left out, case by case *)
ExpectedLabel(frame) ==
    IF frame.module_name # "" /\ frame.class_name # ""
    THEN <<frame.module_name, ".", frame.class_name, ".", frame.co_name>>
    ELSE IF frame.module_name # ""
    THEN <<frame.module_name, ".", frame.co_name>>
    ELSE IF frame.class_name # ""
    THEN <<frame.class_name, ".", frame.co_name>>
    ELSE <<frame.co_name>>

(* C17: the span pushed by a matching enter event is labelled with the
   module, enclosing-type and function names joined with ".", the empty ones
   omitted, has kind METHOD and has no children. *)
C17_LabelJoinsNonEmpty ==
    [][(Len(frames') = Len(frames) + 1 /\ frames'[Len(frames')].f_trace) =>
            LET sp == call_stack'[Len(call_stack')]
            IN  /\ sp.id = frames'[Len(frames')].id
                /\ sp.operation.label = ExpectedLabel(frames'[Len(frames')].code)
                /\ sp.operation.type = "METHOD"
                /\ sp.children = <<>>
      ]_vars

C17_Witness ==
    /\ Len(call_stack) = 2
    /\ call_stack[1].operation.label = <<"load">>
    /\ call_stack[2].operation.label = <<"Page", ".", "load">>

----------------------------------------------------------------------------
(* The recorder driven directly: after a traced request has begun,
   trace_callback(frame, event, arg) is applied to any event for any frame,
   in any order, as a caller of the method can. *)

Events == {"call", "return", "line"}

Callback(frame, event) ==
    /\ tracer
    /\ LET r == trace_callback(call_stack, traces, file_filter, frame, event, now, nextId)
           top == IF call_stack = <<>> THEN 0 ELSE call_stack[Len(call_stack)].id
       IN  /\ r.result /\ event = "call" => nextId <= MaxSpans
           /\ call_stack' = r.call_stack
           /\ traces' = r.traces
           /\ nextId' = IF r.result /\ event = "call" THEN nextId + 1 ELSE nextId
           /\ calls' = IF r.result /\ event = "call"
                       THEN Append(calls, [req |-> CurReq, parent |-> top, at |-> now])
                       ELSE calls
           /\ tracer' = IF r.raised THEN FALSE ELSE tracer
           /\ phase' = IF r.raised /\ phase = "handling" THEN "failing" ELSE phase
    /\ UNCHANGED <<file_filter, cache, now, ticks, request, response, frames,
                   usedIds, reqNo, data, stored>>

CallbackEvent == \E frame \in Frames, event \in Events : Callback(frame, event)

CallbackTick == \E d \in Steps : Tick(d)

CallbackNext ==
    \/ LabelStart
    \/ CallbackEvent
    \/ CallbackTick
    \/ ProcessResponse

CallbackSpec == Init /\ [][CallbackNext]_vars

(* C13: a return event for a matching frame that arrives while the stack is
   empty is ignored: from a state of a traced request with the interceptor
   installed and the stack empty, no step other than the response hook ends
   in an error outcome for the request or takes the interceptor away, and a
   step that leaves the stack empty leaves the root list as it was. *)
C13_ReturnWithoutStackIgnored ==
    [][(tracer /\ call_stack = <<>> /\ phase = "handling" /\ phase' # "idle") =>
            /\ phase' = "handling"
            /\ tracer'
            /\ (call_stack' = <<>> => traces' = traces)
      ]_vars

----------------------------------------------------------------------------
(* Two threads of one server process share the middleware instance, and so
   self.traces and self.call_stack; sys.settrace installs the function for
   the calling thread only.  Each thread serves one request.  Here tracer,
   phase, request, response, frames, reqNo and data hold one value per
   thread, and reqNo[t] is the number of the request thread t serves (0
   before it begins). *)

Threads == {1, 2}

ConcInit ==
    /\ traces = <<>>
    /\ call_stack = <<>>
    /\ file_filter = {AppDir}
    /\ tracer = [t \in Threads |-> FALSE]
    /\ cache = <<>>
    /\ now = 0
    /\ ticks = 0
    /\ phase = [t \in Threads |-> "idle"]
    /\ request = [t \in Threads |-> [method |-> "", path |-> <<>>]]
    /\ response = [t \in Threads |-> NoResponse]
    /\ frames = [t \in Threads |-> <<>>]
    /\ nextId = 1
    /\ usedIds = {}
    /\ reqNo = [t \in Threads |-> 0]
    /\ calls = <<>>
    /\ data = [t \in Threads |-> NoData]
    /\ stored = {}

(* a function is called in thread t while its interceptor is installed *)
ThreadEnter(t, frame) ==
    /\ tracer[t]
    /\ Len(frames[t]) < MaxDepth
    /\ LET r == Deliver(tracer[t], call_stack, traces, frame, "call")
       IN  /\ r.result => nextId <= MaxSpans
           /\ call_stack' = r.call_stack
           /\ traces' = r.traces
           /\ frames' = [frames EXCEPT ![t] =
                            Append(@, [code |-> frame, f_trace |-> r.result,
                                       id |-> IF r.result THEN nextId ELSE 0])]
           /\ nextId' = IF r.result THEN nextId + 1 ELSE nextId
           /\ calls' = IF r.result
                       THEN Append(calls, [req |-> reqNo[t],
                                           parent |-> EnclosingId(frames[t]), at |-> now])
                       ELSE calls
    /\ UNCHANGED <<file_filter, tracer, cache, now, ticks, phase, request, response,
                   usedIds, reqNo, data, stored>>

(* the innermost live activation of thread t returns *)
ThreadReturn(t) ==
    /\ frames[t] # <<>>
    /\ LET top == frames[t][Len(frames[t])]
           r == Deliver(tracer[t] /\ top.f_trace, call_stack, traces, top.code, "return")
       IN  /\ call_stack' = r.call_stack
           /\ traces' = r.traces
           /\ tracer' = [tracer EXCEPT ![t] = IF r.raised THEN FALSE ELSE @]
           /\ phase' = [phase EXCEPT ![t] =
                            IF r.raised /\ @ = "handling" THEN "failing" ELSE @]
    /\ frames' = [frames EXCEPT ![t] = SubSeq(@, 1, Len(@) - 1)]
    /\ UNCHANGED <<file_filter, cache, now, ticks, request, response,
                   nextId, usedIds, reqNo, calls, data, stored>>

(* process_request(request) in thread t *)
ThreadProcessRequest(t, method, path) ==
    /\ phase[t] = "idle"
    /\ reqNo[t] = 0
    /\ frames[t] = <<>>
    /\ IF ~StartsWith(path, TRACE_URL)
       THEN /\ request' = [request EXCEPT ![t] =
                              [method |-> method, path |-> path,
                               _speedtracer_start_time |-> now]]
            /\ tracer' = [tracer EXCEPT ![t] = TRUE]
            /\ response' = [response EXCEPT ![t] = NoResponse]
            /\ phase' = [phase EXCEPT ![t] = "handling"]
       ELSE /\ request' = [request EXCEPT ![t] = [method |-> method, path |-> path]]
            /\ tracer' = tracer
            /\ response' = [response EXCEPT ![t] = retrieve(cache, path, now)]
            /\ phase' = [phase EXCEPT ![t] = "responding"]
    /\ reqNo' = [reqNo EXCEPT ![t] = Cardinality({u \in Threads : reqNo[u] # 0}) + 1]
    /\ data' = [data EXCEPT ![t] = NoData]
    /\ UNCHANGED <<traces, call_stack, file_filter, cache, now, ticks, frames,
                   nextId, usedIds, calls, stored>>

(* process_response(request, response) in thread t *)
ThreadProcessResponse(t) ==
    /\ phase[t] \in {"handling", "failing", "responding"}
    /\ frames[t] = <<>>
    /\ LET frame == HookFrame("process_response", 155)
           c1 == Deliver(tracer[t], call_stack, traces, frame, "call")
           resp == IF phase[t] = "handling" THEN ViewResponse
                   ELSE IF phase[t] = "failing" THEN ServerError ELSE response[t]
       IN  /\ c1.result => nextId <= MaxSpans
           /\ nextId' = IF c1.result THEN nextId + 1 ELSE nextId
           /\ calls' = IF c1.result
                       THEN Append(calls, [req |-> reqNo[t], parent |-> 0, at |-> now])
                       ELSE calls
           /\ call_stack' = c1.call_stack
           /\ traces' = c1.traces
           /\ tracer' = [tracer EXCEPT ![t] = FALSE]
           /\ IF "_speedtracer_start_time" \notin DOMAIN request[t]
              THEN /\ response' = [response EXCEPT ![t] = resp]
                   /\ data' = [data EXCEPT ![t] = NoData]
                   /\ UNCHANGED <<cache, usedIds, stored>>
              ELSE LET trace_id == uuid4(Cardinality(usedIds))
                       start_time == request[t]._speedtracer_start_time
                       end_time == now
                       doc == build_data(request[t], trace_id, start_time, end_time, now,
                                         c1.traces)
                       url == TRACE_URL \o trace_id
                   IN  /\ usedIds' = usedIds \cup {trace_id}
                       /\ data' = [data EXCEPT ![t] = doc]
                       /\ cache' = cache_set(cache, CACHE_PREFIX(trace_id), doc, TTL, now)
                       /\ response' = [response EXCEPT ![t] =
                                          SetHeader(resp, "X-TraceUrl", url)]
                       /\ stored' = stored \cup {[url |-> url, doc |-> doc, at |-> now]}
    /\ phase' = [phase EXCEPT ![t] = "idle"]
    /\ UNCHANGED <<file_filter, now, ticks, request, frames, reqNo>>

ConcTick == \E d \in Steps : Tick(d)

ConcNext ==
    \/ \E t \in Threads, frame \in Frames : ThreadEnter(t, frame)
    \/ \E t \in Threads : ThreadReturn(t)
    \/ \E t \in Threads, method \in Methods, path \in Paths :
            ThreadProcessRequest(t, method, path)
    \/ \E t \in Threads : ThreadProcessResponse(t)
    \/ ConcTick

ConcSpec == ConcInit /\ [][ConcNext]_vars

(* the open spans on the shared stack that were entered by thread t's request *)
OpenOf(t) == SelectSeq(call_stack, LAMBDA sp : calls[sp.id].req = reqNo[t])

(* C12: with two requests in flight on two threads, a span is attached only
   under a span of its own request, the open spans of each request are
   exactly the spans of that thread's live activations (so each return pops
   its own activation's span), and the document assembled for a request
   holds only spans entered during that request. *)
C12_RequestsIsolated ==
    /\ \A sp \in AllSpans(call_stack) \cup AllSpans(traces) :
            \A i \in 1..Len(sp.children) :
                calls[sp.children[i].id].req = calls[sp.id].req
    /\ \A t \in Threads :
            reqNo[t] # 0 => IdsOf(OpenOf(t)) = LiveIds(frames[t])
    /\ \A t \in Threads :
            data[t] # NoData =>
                \A sp \in AllSpans(data[t].trace.frameStack.children) :
                    calls[sp.id].req = reqNo[t]

====
